---- MODULE Spec2Model ----
(***************************************************************************)
(* A model of the `eks` entity-component crate (src/src/lib.rs and         *)
(* src/src/map.rs): the component enum, Entity, World and the query        *)
(* macros map!, map_mut!, map_mut_checked! and tags!.                      *)
(*                                                                         *)
(* Five specifications drive the same operators:                           *)
(*   SpecEntity  the Entity methods, on an entity the caller holds;        *)
(*   SpecWorld   the World methods;                                        *)
(*   SpecQuery   the query macros over a populated world, read;            *)
(*   SpecMutate  the mutable query macros, written through;                *)
(*   SpecAttach  an entity built by the caller, moved into a world by      *)
(*               insert and taken back out by remove.                      *)
(***************************************************************************)
EXTENDS Integers, Sequences, FiniteSets, TLC

VARIABLES
    world,      \* World.entities : HashMap<Id, Entity<C>>, a function Id -> Entity
    ent,        \* the entity the caller holds (Option<Entity<C>>)
    res,        \* the outcome of the last call: its return value or its panic
    it,         \* the query iterator the caller drives (map!/map_mut!/.. in world)
    returned,   \* the identities World::insert returned, in call order
    writes      \* items the loop body `*a += *b` has written through so far

vars == <<world, ent, res, it, returned, writes>>

(***************************************************************************)
(* Bounds.                                                                 *)
(***************************************************************************)
MaxId == 3              \* identities are drawn from 1..MaxId
MaxQueryEntities == 2   \* entities of the worlds SpecQuery starts from
MaxWrites == 2          \* writes of the loop body `*a += *b` per behaviour
MaxKinds == 2           \* kinds named in one query
MaxAttached == 1        \* entities SpecAttach keeps in the world at a time

(***************************************************************************)
(* Option<T>, and the ways a call ends.                                    *)
(***************************************************************************)
None == [tag |-> "None"]
Some(v) == [tag |-> "Some", val |-> v]
is_some(o) == o.tag = "Some"

Bool(b) == [tag |-> "Bool", val |-> b]
Unit == [tag |-> "Unit"]
Panic(msg) == [tag |-> "Panic", msg |-> msg]

(***************************************************************************)
(* component! { Position: isize, Speed: isize }: one unit struct per kind, *)
(* AS_STR = stringify!($id), and one enum variant $name::$id(val).         *)
(***************************************************************************)
Kinds == {"Position", "Speed"}

\* The values the crate's example gives each kind (lib.rs, lines 25-33).
ValuesOf(T) == IF T = "Position" THEN {0, 2} ELSE {-1, 3}

\* Uuid::new_v4(): 122 random bits; any identity may come out.
IdSpace == 1..MaxId

AS_STR(T) == T

\* Component::new(val) == $name::$id(val)
Component_new(T, val) == [variant |-> T, val |-> val]

\* enum_as_val / enum_as_val_mut / enum_to_val: the payload of the variant
\* $id, a panic on any other variant.
enum_as_val(T, enm) ==
    IF enm.variant = T THEN enm.val ELSE Panic(<<"Component is not ", T>>)

enum_to_val(T, enm) ==
    IF enm.variant = T THEN enm.val ELSE Panic(<<"Component is not ", T>>)

(***************************************************************************)
(* std::collections::HashMap, as a function with a finite domain.          *)
(***************************************************************************)
EmptyMap == <<>>

HashMap_get(m, k) == IF k \in DOMAIN m THEN Some(m[k]) ELSE None

\* faulty variant: insert-or-skip, the key keeps the value it had
HashMap_insert_skip(m, k, v) ==
    [map |-> [x \in DOMAIN m \cup {k} |-> IF x \in DOMAIN m THEN m[x] ELSE v],
     old |-> IF k \in DOMAIN m THEN Some(m[k]) ELSE None]

\* insert returns the value the key held before, if any
HashMap_insert(m, k, v) ==
    [map |-> [x \in DOMAIN m \cup {k} |-> IF x = k THEN v ELSE m[x]],
     old |-> IF k \in DOMAIN m THEN Some(m[k]) ELSE None]

HashMap_remove(m, k) ==
    [map |-> [x \in DOMAIN m \ {k} |-> m[x]],
     old |-> IF k \in DOMAIN m THEN Some(m[k]) ELSE None]

(***************************************************************************)
(* Entity<C>                                                               *)
(***************************************************************************)
\* Id::new() draws the identity; Entity::new() takes it at construction.
Entity_new(id) == [id |-> id, components |-> EmptyMap]

Entity_id(e) == e.id

\* a panic of enum_as_val leaves get: the call returns nothing
Entity_get(e, T) ==
    LET c == HashMap_get(e.components, AS_STR(T))
    IN  IF ~is_some(c) THEN None
        ELSE IF c.val.variant = T THEN Some(enum_as_val(T, c.val))
        ELSE enum_as_val(T, c.val)

\* get_mut finds the same slot as get; the caller may then write through it.
Entity_get_mut(e, T) ==
    LET c == HashMap_get(e.components, AS_STR(T))
    IN  IF ~is_some(c) THEN None
        ELSE IF c.val.variant = T THEN Some(enum_as_val(T, c.val))
        ELSE enum_as_val(T, c.val)

\* `*r = v` through the reference get_mut returned for kind T
WriteSlot(e, T, v) ==
    [e EXCEPT !.components = [x \in DOMAIN e.components |->
        IF x = AS_STR(T) THEN [e.components[x] EXCEPT !.val = v]
        ELSE e.components[x]]]

\* faulty variant: has answers for any component at all
Entity_has_any(e, T) == Bool(DOMAIN e.components # {})

\* self.get::<T>().is_some(): a panic of get leaves has
Entity_has(e, T) ==
    LET g == Entity_get(e, T)
    IN  IF g.tag = "Panic" THEN g ELSE Bool(is_some(g))

\* the map is written before enum_to_val looks at what the slot held: a
\* panic of enum_to_val leaves add with the new value in place
Entity_add(e, T, value) ==
    LET r == HashMap_insert(e.components, AS_STR(T), Component_new(T, value))
    IN  [entity |-> [e EXCEPT !.components = r.map],
         ret    |-> IF ~is_some(r.old) THEN None
                    ELSE IF r.old.val.variant = T THEN Some(enum_to_val(T, r.old.val))
                    ELSE enum_to_val(T, r.old.val)]

\* `self.add::<T>(value); self`: the entity add leaves, when add returns
Entity_with(e, T, value) == Entity_add(e, T, value).entity

\* faulty variant: remove reads the value and leaves it in its slot
Entity_remove_get(e, T) == [entity |-> e, ret |-> Entity_get(e, T)]

\* the slot is emptied before enum_to_val looks at what it held
Entity_remove(e, T) ==
    LET r == HashMap_remove(e.components, AS_STR(T))
    IN  [entity |-> [e EXCEPT !.components = r.map],
         ret    |-> IF ~is_some(r.old) THEN None
                    ELSE IF r.old.val.variant = T THEN Some(enum_to_val(T, r.old.val))
                    ELSE enum_to_val(T, r.old.val)]

\* entity[T]: Index<$id> and IndexMut<$id>
Entity_index(e, T) ==
    LET g == Entity_get(e, T)
    IN  IF g.tag = "None" THEN Panic(<<"Unable to find component ", AS_STR(T)>>) ELSE g

Entity_index_mut(e, T) ==
    LET g == Entity_get_mut(e, T)
    IN  IF g.tag = "None" THEN Panic(<<"Unable to find component ", AS_STR(T)>>) ELSE g

\* entity! { T1: v1, .. }: Entity::new(), then one add per field, in order
RECURSIVE entity_macro_adds(_, _)
entity_macro_adds(e, fields) ==
    IF fields = <<>> THEN e
    ELSE entity_macro_adds(Entity_add(e, fields[1][1], fields[1][2]).entity, Tail(fields))

entity_macro(id, fields) == entity_macro_adds(Entity_new(id), fields)

(***************************************************************************)
(* World<C>                                                                *)
(***************************************************************************)
World_new == EmptyMap

\* the key is the identity the entity carries
World_insert(w, e) ==
    LET id == Entity_id(e)
    IN  [world |-> HashMap_insert(w, id, e).map, ret |-> id]

World_remove(w, id) ==
    LET r == HashMap_remove(w, id)
    IN  [world |-> r.map, ret |-> r.old]

World_get(w, id) == HashMap_get(w, id)

World_get_mut(w, id) == HashMap_get(w, id)

\* faulty variant: a missing entity is reported as None, like get
World_index_none(w, id) == HashMap_get(w, id)

\* world[id]: Index<Id> and IndexMut<Id>
World_index(w, id) ==
    LET g == World_get(w, id)
    IN  IF is_some(g) THEN g ELSE Panic(<<"Unable to find entity with id: ", id>>)

World_index_mut(w, id) ==
    LET g == World_get_mut(w, id)
    IN  IF is_some(g) THEN g ELSE Panic(<<"Unable to find entity with id: ", id>>)

\* the sequences over S that hold each element of S once
Orderings(S) ==
    {f \in [1..Cardinality(S) -> S] : \A x \in S : \E i \in DOMAIN f : f[i] = x}

\* iter() and iter_mut() are HashMap::values() and values_mut(): every stored
\* entity once, in the order of the hash table, which RandomState seeds per
\* map. The traversals a run can produce are all the orders of the keys.
World_iter(w) == Orderings(DOMAIN w)

\* EntityIterator::ids(): the identity of each entity, in the iterator's order
Ids(w, order) == [i \in DOMAIN order |-> Entity_id(w[order[i]])]

(***************************************************************************)
(* The query macros of map.rs. Each builds a closure over one entity;      *)
(* `M!(.. in world)` is world.iter()/iter_mut() under filter_map/filter.   *)
(***************************************************************************)
\* Component::try_entity and try_entity_mut: entity.get::<$id>() and, behind
\* the pointer cast, entity.get_mut::<$id>()
try_entity(T, e) == Entity_get(e, T)

try_entity_mut(T, e) == Entity_get_mut(e, T)

\* `$($name::try_entity(entity).is_some() &&)* true`: the chain evaluates
\* try_entity kind by kind and stops at the first None; a panic of a
\* try_entity it reaches leaves the closure
RECURSIVE and_chain(_, _, _)
and_chain(kinds, i, e) ==
    IF i > Len(kinds) THEN Bool(TRUE)
    ELSE LET g == try_entity(kinds[i], e)
         IN  IF g.tag = "Panic" THEN g
             ELSE IF g.tag = "None" THEN Bool(FALSE)
             ELSE and_chain(kinds, i + 1, e)

has_all(kinds, e) == and_chain(kinds, 1, e)

\* `$($name::try_entity_mut(entity).is_some() &&)* true`
RECURSIVE and_chain_mut(_, _, _)
and_chain_mut(kinds, i, e) ==
    IF i > Len(kinds) THEN Bool(TRUE)
    ELSE LET g == try_entity_mut(kinds[i], e)
         IN  IF g.tag = "Panic" THEN g
             ELSE IF g.tag = "None" THEN Bool(FALSE)
             ELSE and_chain_mut(kinds, i + 1, e)

has_all_mut(kinds, e) == and_chain_mut(kinds, 1, e)

\* faulty variant: every position of the tuple reads the first kind
map_closure_first(kinds, e) ==
    IF has_all(kinds, e) = Bool(TRUE)
    THEN Some([i \in DOMAIN kinds |-> try_entity(kinds[1], e).val])
    ELSE None

\* map!(k1, .., kn): the tuple of the values when the entity has them all.
\* (With one kind Rust's `(x)` is x itself; the model keeps a 1-tuple.)
map_closure(kinds, e) ==
    IF has_all(kinds, e).tag = "Panic" THEN has_all(kinds, e)
    ELSE IF has_all(kinds, e).val
    THEN Some([i \in DOMAIN kinds |-> try_entity(kinds[i], e).val])
    ELSE None

\* a `&mut` into the slot of kind T of the entity at hand
SlotRef(T) == [slot |-> AS_STR(T)]

\* map_mut!(k): `|entity| k::try_entity_mut(entity)`; map_mut!(k1, .., kn): the
\* tuple of the references when the entity has them all
map_mut_closure(kinds, e) ==
    IF Len(kinds) = 1
    THEN LET g == try_entity_mut(kinds[1], e)
         IN  IF g.tag = "Panic" THEN g
             ELSE IF is_some(g) THEN Some(<<SlotRef(kinds[1])>>) ELSE None
    ELSE IF has_all_mut(kinds, e).tag = "Panic" THEN has_all_mut(kinds, e)
    ELSE IF has_all_mut(kinds, e).val
         THEN Some([i \in DOMAIN kinds |-> SlotRef(kinds[i])])
         ELSE None

\* format!("{:?}", $name::default()): the unit struct's derived Debug
DebugFmt(T) == T

\* the `used` loop of map_mut_checked!: the first name found in `used` already
RECURSIVE used_twice(_, _, _)
used_twice(kinds, i, used) ==
    IF i > Len(kinds) THEN None
    ELSE LET s == DebugFmt(kinds[i])
         IN  IF s \notin used THEN used_twice(kinds, i + 1, used \cup {s})
             ELSE Some(s)

\* faulty variant: the closure without its uniqueness check
map_mut_checked_closure_unchecked(kinds, e) ==
    IF has_all_mut(kinds, e) = Bool(TRUE)
    THEN Some([i \in DOMAIN kinds |-> SlotRef(kinds[i])])
    ELSE None

\* map_mut_checked!(k1, .., kn): the check runs in the closure, on every
\* entity it is applied to, before the entity is looked at. The panic message
\* goes on with file!(), line!() and column!() of the call site.
map_mut_checked_closure(kinds, e) ==
    LET dup == used_twice(kinds, 1, {})
    IN  IF is_some(dup)
        THEN Panic(<<dup.val, " is used twice in map_mut_checked">>)
        ELSE IF has_all_mut(kinds, e).tag = "Panic" THEN has_all_mut(kinds, e)
        ELSE IF has_all_mut(kinds, e).val
             THEN Some([i \in DOMAIN kinds |-> SlotRef(kinds[i])])
             ELSE None

\* faulty variant: a tag filter that is content with one of the kinds
tags_closure_any(kinds, e) ==
    Bool(\E i \in DOMAIN kinds : is_some(try_entity(kinds[i], e)))

\* tags!(k1, .., kn)
tags_closure(kinds, e) == has_all(kinds, e)

\* what the adaptor of `M!(kinds in world)` makes of one entity: filter_map
\* hands on the closure's Some, filter hands on the entity itself
Adapt(macro, kinds, e) ==
    CASE macro = "map" -> map_closure(kinds, e)
      [] macro = "map_mut" -> map_mut_closure(kinds, e)
      [] macro = "map_mut_checked" -> map_mut_checked_closure(kinds, e)
      [] macro = "tags" -> IF tags_closure(kinds, e).tag = "Panic"
                           THEN tags_closure(kinds, e)
                           ELSE IF tags_closure(kinds, e).val THEN Some(e) ELSE None

\* faulty variant: the write through the reference is lost
AddAssign_lost(e, kinds) == e

\* the loop body of the crate's example and test, `*a += *b`, on the first
\* two references of the tuple. map_mut!(k, k) hands out two `&mut` to one
\* slot (undefined behaviour, map.rs, lines 104-111); `*a += *b` is then two
\* loads of the slot and one store of their sum, and whichever order the
\* build gives the loads, the slot ends with twice what it held.
AddAssign(e, kinds) ==
    WriteSlot(e, kinds[1], Entity_get(e, kinds[1]).val + Entity_get(e, kinds[2]).val)

(***************************************************************************)
(* The state.                                                              *)
(***************************************************************************)
Idle == [state |-> "idle"]

NoCall == [op |-> "none", ret |-> Unit]

\* a panic ends the program: no call follows it
Panicked == res.ret.tag = "Panic"

InitEntity ==
    /\ world = EmptyMap
    /\ ent = None
    /\ res = NoCall
    /\ it = Idle
    /\ returned = <<>>
    /\ writes = 0

(***************************************************************************)
(* The Entity methods, called on the entity the caller holds.              *)
(***************************************************************************)
EntityNew ==
    /\ ~Panicked
    /\ \E id \in IdSpace :
        /\ ent' = Some(Entity_new(id))
        /\ res' = [op |-> "new", ret |-> Unit]
    /\ UNCHANGED <<world, it, returned, writes>>

EntityAdd(T, v) ==
    /\ ~Panicked
    /\ is_some(ent)
    /\ LET r == Entity_add(ent.val, T, v)
       IN  /\ ent' = Some(r.entity)
           /\ res' = [op |-> "add", kind |-> T, arg |-> v, ret |-> r.ret]
    /\ UNCHANGED <<world, it, returned, writes>>

EntityWith(T, v) ==
    /\ ~Panicked
    /\ is_some(ent)
    /\ LET r == Entity_add(ent.val, T, v)
       IN  IF r.ret.tag = "Panic"
           THEN /\ ent' = None
                /\ res' = [op |-> "with", kind |-> T, arg |-> v, ret |-> r.ret]
           ELSE /\ ent' = Some(Entity_with(ent.val, T, v))
                /\ res' = [op |-> "with", kind |-> T, arg |-> v, ret |-> Unit]
    /\ UNCHANGED <<world, it, returned, writes>>

EntityRemove(T) ==
    /\ ~Panicked
    /\ is_some(ent)
    /\ LET r == Entity_remove(ent.val, T)
       IN  /\ ent' = Some(r.entity)
           /\ res' = [op |-> "remove", kind |-> T, ret |-> r.ret]
    /\ UNCHANGED <<world, it, returned, writes>>

EntityGet(T) ==
    /\ ~Panicked
    /\ is_some(ent)
    /\ res' = [op |-> "get", kind |-> T, ret |-> Entity_get(ent.val, T)]
    /\ UNCHANGED <<world, ent, it, returned, writes>>

\* get_mut, and a write of v through the reference when there is one
EntityGetMut(T, v) ==
    /\ ~Panicked
    /\ is_some(ent)
    /\ LET g == Entity_get_mut(ent.val, T)
       IN  /\ res' = [op |-> "get_mut", kind |-> T, arg |-> v, ret |-> g]
           /\ ent' = IF is_some(g) THEN Some(WriteSlot(ent.val, T, v)) ELSE ent
    /\ UNCHANGED <<world, it, returned, writes>>

EntityHas(T) ==
    /\ ~Panicked
    /\ is_some(ent)
    /\ res' = [op |-> "has", kind |-> T,
                ret |-> Entity_has(ent.val, T)]
    /\ UNCHANGED <<world, ent, it, returned, writes>>

EntityIndex(T) ==
    /\ ~Panicked
    /\ is_some(ent)
    /\ res' = [op |-> "index", kind |-> T, ret |-> Entity_index(ent.val, T)]
    /\ UNCHANGED <<world, ent, it, returned, writes>>

\* entity[T] = v
EntityIndexMut(T, v) ==
    /\ ~Panicked
    /\ is_some(ent)
    /\ LET g == Entity_index_mut(ent.val, T)
       IN  /\ res' = [op |-> "index_mut", kind |-> T, arg |-> v, ret |-> g]
           /\ ent' = IF is_some(g) THEN Some(WriteSlot(ent.val, T, v)) ELSE ent
    /\ UNCHANGED <<world, it, returned, writes>>

NextEntity ==
    \/ EntityNew
    \/ \E T \in Kinds : \E v \in ValuesOf(T) : EntityAdd(T, v)
    \/ \E T \in Kinds : \E v \in ValuesOf(T) : EntityWith(T, v)
    \/ \E T \in Kinds : EntityRemove(T)
    \/ \E T \in Kinds : EntityGet(T)
    \/ \E T \in Kinds : \E v \in ValuesOf(T) : EntityGetMut(T, v)
    \/ \E T \in Kinds : EntityHas(T)
    \/ \E T \in Kinds : EntityIndex(T)
    \/ \E T \in Kinds : \E v \in ValuesOf(T) : EntityIndexMut(T, v)

SpecEntity == InitEntity /\ [][NextEntity]_vars

(***************************************************************************)
(* The World methods.                                                      *)
(***************************************************************************)
\* the entities a caller of SpecWorld builds: entity! { Position: v }
WorldFields == {<<<<"Position", 0>>>>, <<<<"Position", 2>>>>}

EntityInputs == {entity_macro(id, f) : id \in IdSpace, f \in WorldFields}

InitWorld ==
    /\ world = World_new
    /\ ent = None
    /\ res = NoCall
    /\ it = Idle
    /\ returned = <<>>
    /\ writes = 0

\* world.insert(e); the caller keeps the identity it returns. A behaviour
\* makes at most MaxId inserts, so that `returned` is the whole history.
WorldInsert(e) ==
    /\ ~Panicked
    /\ Len(returned) < MaxId
    /\ LET r == World_insert(world, e)
       IN  /\ world' = r.world
           /\ res' = [op |-> "insert", arg |-> e, ret |-> Some(r.ret)]
           /\ returned' = Append(returned, r.ret)
    /\ UNCHANGED <<ent, it, writes>>

WorldRemove(id) ==
    /\ ~Panicked
    /\ LET r == World_remove(world, id)
       IN  /\ world' = r.world
           /\ res' = [op |-> "remove", id |-> id, ret |-> r.ret]
    /\ UNCHANGED <<ent, it, returned, writes>>

WorldGet(id) ==
    /\ ~Panicked
    /\ res' = [op |-> "world_get", id |-> id, ret |-> World_get(world, id)]
    /\ UNCHANGED <<world, ent, it, returned, writes>>

\* world.get(id).and_then(|e| e.get::<T>())
WorldGetEntityGet(id, T) ==
    /\ ~Panicked
    /\ LET g == World_get(world, id)
       IN  res' = [op |-> "world_get_get", id |-> id, kind |-> T,
                   ret |-> IF is_some(g) THEN Entity_get(g.val, T) ELSE None]
    /\ UNCHANGED <<world, ent, it, returned, writes>>

\* if let Some(e) = world.get_mut(id) { e.add::<T>(v); }
WorldGetMutAdd(id, T, v) ==
    /\ ~Panicked
    /\ LET g == World_get_mut(world, id)
       IN  /\ res' = [op |-> "world_get_mut", id |-> id, kind |-> T, arg |-> v,
                       ret |-> IF is_some(g) /\ Entity_add(g.val, T, v).ret.tag = "Panic"
                               THEN Entity_add(g.val, T, v).ret
                               ELSE g]
           /\ world' = IF is_some(g)
                       THEN [world EXCEPT ![id] = Entity_add(g.val, T, v).entity]
                       ELSE world
    /\ UNCHANGED <<ent, it, returned, writes>>

\* world[id][T], as in the crate example: a panic of either index ends the call
WorldIndexEntityIndex(id, T) ==
    /\ ~Panicked
    /\ LET g == World_index(world, id)
       IN  res' = [op |-> "world_index", id |-> id, kind |-> T,
                   ret |-> IF is_some(g) THEN Entity_index(g.val, T) ELSE g]
    /\ UNCHANGED <<world, ent, it, returned, writes>>

\* world[id][T] = v
WorldIndexMutEntityIndexMut(id, T, v) ==
    /\ ~Panicked
    /\ LET g == World_index_mut(world, id)
           h == IF is_some(g) THEN Entity_index_mut(g.val, T) ELSE g
       IN  /\ res' = [op |-> "world_index_mut", id |-> id, kind |-> T, arg |-> v, ret |-> h]
           /\ world' = IF is_some(h)
                       THEN [world EXCEPT ![id] = WriteSlot(g.val, T, v)]
                       ELSE world
    /\ UNCHANGED <<ent, it, returned, writes>>

\* world.iter().ids().collect::<Vec<_>>()
WorldIterIds ==
    /\ ~Panicked
    /\ \E order \in World_iter(world) :
        res' = [op |-> "ids", ret |-> Some(Ids(world, order))]
    /\ UNCHANGED <<world, ent, it, returned, writes>>

NextWorld ==
    \/ \E e \in EntityInputs : WorldInsert(e)
    \/ \E id \in IdSpace : WorldRemove(id)
    \/ \E id \in IdSpace : WorldGet(id)
    \/ \E id \in IdSpace : \E T \in Kinds : WorldGetEntityGet(id, T)
    \/ \E id \in IdSpace : \E v \in ValuesOf("Position") : WorldGetMutAdd(id, "Position", v)
    \/ \E id \in IdSpace : \E T \in Kinds : WorldIndexEntityIndex(id, T)
    \/ \E id \in IdSpace : \E v \in ValuesOf("Position") :
            WorldIndexMutEntityIndexMut(id, "Position", v)
    \/ WorldIterIds

SpecWorld == InitWorld /\ [][NextWorld]_vars

(***************************************************************************)
(* The query macros over a world.                                          *)
(***************************************************************************)
\* the entities of the crate's example (A and B) and the sparse one of its test
QueryFields ==
    { <<<<"Position", 0>>, <<"Speed", -1>>>>,
      <<<<"Position", 2>>, <<"Speed", 3>>>>,
      <<<<"Position", 5>>>> }

\* worlds of up to MaxQueryEntities such entities, as inserts leave them
QueryWorlds ==
    UNION {{[id \in 1..n |-> entity_macro(id, f[id])] : f \in [1..n -> QueryFields]} :
            n \in 0..MaxQueryEntities}

\* the kind lists of the closure forms `M!(k1, .., kn)`, n >= 0
KindLists == UNION {[1..n -> Kinds] : n \in 0..MaxKinds}

\* the kind lists of the iterator forms `M!(k1, .., kn in world)`: without a
\* kind the macro call does not parse
KindListsIn == {kinds \in KindLists : Len(kinds) >= 1}

Macros == {"map", "map_mut", "map_mut_checked", "tags"}

Distinct(kinds) == \A i \in DOMAIN kinds : \A j \in DOMAIN kinds : i # j => kinds[i] # kinds[j]

InitQuery ==
    /\ world \in QueryWorlds
    /\ ent = None
    /\ res = NoCall
    /\ it = Idle
    /\ returned = <<>>
    /\ writes = 0

\* the entities the hash table can hand out next, `visited` being those it
\* handed out so far: the traversal is one of World_iter's orders
NextInOrder(w, visited) ==
    {order[Len(visited) + 1] :
        order \in {o \in World_iter(w) :
                     /\ Len(o) > Len(visited)
                     /\ \A i \in DOMAIN visited : o[i] = visited[i]}}

\* `M!(kinds in world)`: the iterator is built, nothing is visited yet; an
\* iterator the caller still had, exhausted or not, is dropped. body is the
\* loop the caller runs on each item: `for (a, b) in ..` takes pairs.
QueryStart(macro, kinds, body) ==
    /\ ~Panicked
    /\ kinds \in KindListsIn
    /\ body = "add_assign" =>
        /\ macro \in {"map_mut", "map_mut_checked"}
        /\ Len(kinds) = 2
    /\ it' = [state |-> "running", macro |-> macro, kinds |-> kinds, body |-> body,
              visited |-> <<>>, out |-> <<>>, start |-> world]
    /\ res' = [op |-> "query", ret |-> Unit]
    /\ UNCHANGED <<world, ent, returned, writes>>

\* the adaptor pulls the next entity and applies the closure; an item it
\* hands on goes through the loop body before the next entity is pulled
QueryStep(id) ==
    /\ ~Panicked
    /\ it.state = "running"
    /\ id \in NextInOrder(world, it.visited)
    /\ LET r == Adapt(it.macro, it.kinds, world[id])
       IN  IF r.tag = "Panic"
           THEN /\ res' = [op |-> "query_step", ret |-> r]
                /\ it' = [it EXCEPT !.state = "panicked"]
                /\ UNCHANGED <<world, writes>>
           ELSE /\ res' = [op |-> "query_step", ret |-> Unit]
                /\ it' = [it EXCEPT !.visited = Append(it.visited, id),
                                    !.out = IF is_some(r)
                                            THEN Append(it.out, [id |-> id, item |-> r.val])
                                            ELSE it.out]
                /\ IF is_some(r) /\ it.body = "add_assign"
                   THEN /\ writes < MaxWrites
                        /\ world' = [world EXCEPT ![id] = AddAssign(world[id], it.kinds)]
                        /\ writes' = writes + 1
                   ELSE UNCHANGED <<world, writes>>
    /\ UNCHANGED <<ent, returned>>

\* next() finds the hash table exhausted
QueryEnd ==
    /\ ~Panicked
    /\ it.state = "running"
    /\ NextInOrder(world, it.visited) = {}
    /\ it' = [it EXCEPT !.state = "done"]
    /\ res' = [op |-> "query_end", ret |-> Unit]
    /\ UNCHANGED <<world, ent, returned, writes>>

\* callers that read what the queries yield
NextQuery ==
    \/ \E macro \in Macros : \E kinds \in KindListsIn : QueryStart(macro, kinds, "read")
    \/ \E id \in IdSpace : QueryStep(id)
    \/ QueryEnd

SpecQuery == InitQuery /\ [][NextQuery]_vars

\* callers that write through what the mutable queries yield, and look at the
\* outcome with map!(Position, Speed in world), as the crate's test does
NextMutate ==
    \/ \E macro \in {"map_mut", "map_mut_checked"} : \E kinds \in KindListsIn :
            QueryStart(macro, kinds, "add_assign")
    \/ QueryStart("map", <<"Position", "Speed">>, "read")
    \/ \E id \in IdSpace : QueryStep(id)
    \/ QueryEnd

SpecMutate == InitQuery /\ [][NextMutate]_vars

(***************************************************************************)
(* An entity from construction to the world and back: the caller builds    *)
(* the entity it holds, world.insert(entity) moves it into the world, and  *)
(* world.remove(id) hands it back.                                         *)
(***************************************************************************)
\* entity.id()
EntityId ==
    /\ ~Panicked
    /\ is_some(ent)
    /\ res' = [op |-> "id", ret |-> Some(Entity_id(ent.val))]
    /\ UNCHANGED <<world, ent, it, returned, writes>>

\* world.insert(entity) of the entity the caller holds: the entity is moved.
\* The world holds at most MaxAttached entities, so an insert under a new
\* key waits for room; one under an occupied key replaces.
WorldInsertHeld ==
    /\ ~Panicked
    /\ is_some(ent)
    /\ \/ Entity_id(ent.val) \in DOMAIN world
       \/ Cardinality(DOMAIN world) < MaxAttached
    /\ LET r == World_insert(world, ent.val)
       IN  /\ world' = r.world
           /\ res' = [op |-> "insert", arg |-> ent.val, ret |-> Some(r.ret)]
    /\ ent' = None
    /\ UNCHANGED <<it, returned, writes>>

\* let entity = world.remove(id): the caller holds what remove returned,
\* when it returned an entity
WorldRemoveTake(id) ==
    /\ ~Panicked
    /\ LET r == World_remove(world, id)
       IN  /\ world' = r.world
           /\ res' = [op |-> "remove_take", id |-> id, ret |-> r.ret]
           /\ ent' = IF is_some(r.ret) THEN r.ret ELSE ent
    /\ UNCHANGED <<it, returned, writes>>

NextAttach ==
    \/ EntityNew
    \/ EntityId
    \/ \E T \in Kinds : \E v \in ValuesOf(T) : EntityAdd(T, v)
    \/ \E T \in Kinds : EntityRemove(T)
    \/ \E T \in Kinds : EntityHas(T)
    \/ WorldInsertHeld
    \/ \E id \in IdSpace : WorldRemoveTake(id)

SpecAttach == InitEntity /\ [][NextAttach]_vars

(***************************************************************************)
(* Claims about Entity, checked under SpecEntity.                          *)
(***************************************************************************)
\* the kinds whose variant an entity stores, counted per kind
SlotsOf(e, T) == {x \in DOMAIN e.components : e.components[x].variant = T}

OtherSlotsKept(e1, e2, T) ==
    /\ DOMAIN e2.components \ {AS_STR(T)} = DOMAIN e1.components \ {AS_STR(T)}
    /\ \A x \in DOMAIN e1.components \ {AS_STR(T)} : e2.components[x] = e1.components[x]

\* C5: Entity::add is last-write-wins. After add(k, v) the entity holds exactly
\* one value of kind k and get(k) is Some(v); add returns the value it replaced
\* (None when k was absent), so a second add(k, v2) after add(k, v1) returns v1;
\* with(k, v) leaves the same components as add(k, v).
AddReplaces ==
    [][\A T \in Kinds : \A v \in ValuesOf(T) :
        /\ (res'.op = "add" /\ res'.kind = T /\ res'.arg = v /\ EntityAdd(T, v)) =>
            /\ Entity_get(ent'.val, T) = Some(v)
            /\ Cardinality(SlotsOf(ent'.val, T)) = 1
            /\ res'.ret = Entity_get(ent.val, T)
            /\ (res.op = "add" /\ res.kind = T) => res'.ret = Some(res.arg)
            /\ OtherSlotsKept(ent.val, ent'.val, T)
        /\ (res'.op = "with" /\ res'.kind = T /\ res'.arg = v /\ EntityWith(T, v)) =>
            /\ Entity_get(ent'.val, T) = Some(v)
            /\ Cardinality(SlotsOf(ent'.val, T)) = 1
            /\ OtherSlotsKept(ent.val, ent'.val, T)
            /\ ent'.val.id = ent.val.id
      ]_vars

\* a second add of the same kind replaced a different value and returned it
AddReplacedWitness ==
    /\ res.op = "add"
    /\ is_some(res.ret)
    /\ res.ret.val # res.arg
    /\ Entity_get(ent.val, res.kind) = Some(res.arg)

\* the entities of a state: the one the caller holds and the stored ones
EntitiesOfState ==
    (IF is_some(ent) THEN {ent.val} ELSE {}) \cup {world[id] : id \in DOMAIN world}

\* C9: for every entity built by new/add/with/remove and every declared kind
\* k, has(k) equals get(k).is_some(), and both say whether k's slot is filled.
HasIffGetIsSome ==
    \A e \in EntitiesOfState : \A T \in Kinds :
        /\ Entity_has(e, T) = Bool(is_some(Entity_get(e, T)))
        /\ Entity_has(e, T) = Bool(AS_STR(T) \in DOMAIN e.components)
        /\ is_some(Entity_get(e, T)) => Entity_get(e, T).val \in ValuesOf(T)
        /\ (res.op = "has" /\ is_some(ent) /\ e = ent.val /\ T = res.kind)
              => res.ret.val = is_some(Entity_get(e, T))

\* has answered true for one kind while the entity lacks the other
HasGetWitness ==
    /\ res.op = "has"
    /\ res.ret.val = TRUE
    /\ \E T \in Kinds : Entity_has(ent.val, T) = Bool(FALSE)

(***************************************************************************)
(* Claims about World, checked under SpecWorld.                            *)
(***************************************************************************)
\* C1: over any sequence of insert and remove calls on one world, the
\* identities insert returns are strictly increasing, so none is returned
\* twice.
InsertIdsStrictlyIncreasing ==
    \A i \in 1..Len(returned) : \A j \in 1..Len(returned) :
        i < j => returned[i] < returned[j]

\* C2: insert never replaces or drops a stored entity: every
\* stored entity stays as it was and the count grows by exactly one.
InsertNeverReplaces ==
    [][\A e \in EntityInputs :
        (res'.op = "insert" /\ res'.arg = e /\ WorldInsert(e)) =>
            /\ Cardinality(DOMAIN world') = Cardinality(DOMAIN world) + 1
            /\ \A id \in DOMAIN world : World_get(world', id) = World_get(world, id)
      ]_vars

SeqRange(q) == {q[i] : i \in DOMAIN q}

\* three inserts returned three different identities and only the second of
\* them is gone from the world
MiddleRemoved ==
    /\ Len(returned) = 3
    /\ Cardinality(SeqRange(returned)) = 3
    /\ DOMAIN world = {returned[1], returned[3]}

\* C8: remove(id) returns the entity stored under id, or None when there is
\* none; afterwards get(id) is None, every other entity is stored under its
\* identity unchanged, and removing an absent id changes nothing. After three
\* inserts and the removal of the middle entity, the identities iterate as
\* [first, third].
RemoveMiddleIdsInOrder ==
    [][/\ res'.op = "remove" =>
            LET id == res'.id
            IN  /\ res'.ret = World_get(world, id)
                /\ World_get(world', id) = None
                /\ DOMAIN world' = DOMAIN world \ {id}
                /\ \A j \in DOMAIN world \ {id} : World_get(world', j) = World_get(world, j)
                /\ id \notin DOMAIN world => world' = world
       /\ (res'.op = "ids" /\ MiddleRemoved) =>
            res'.ret.val = <<returned[1], returned[3]>>
      ]_vars

\* the outcome of world[id][T]: the panic of the first index that misses
IndexOutcome(w, id, T) ==
    IF id \notin DOMAIN w
    THEN Panic(<<"Unable to find entity with id: ", id>>)
    ELSE IF AS_STR(T) \notin DOMAIN w[id].components
    THEN Panic(<<"Unable to find component ", AS_STR(T)>>)
    ELSE Some(w[id].components[AS_STR(T)].val)

\* C10: absence is a value, misuse a panic. get/get_mut of a kind or an
\* identity that is not there, and remove of an absent identity, return None
\* and change nothing; world[id] on a missing entity panics with a message
\* naming the identity and entity[kind] on a missing component panics with a
\* message carrying the kind's name; a panic changes no entity; no other call
\* panics.
AbsenceIsNoneMisusePanics ==
    [][/\ \A id \in DOMAIN world : \A T \in Kinds :
            AS_STR(T) \notin DOMAIN world[id].components =>
                /\ Entity_get(world[id], T) = None
                /\ Entity_get_mut(world[id], T) = None
       /\ (res'.op \in {"world_get", "remove"} /\ res'.id \notin DOMAIN world) =>
            /\ res'.ret = None
            /\ world' = world
       /\ res'.op = "world_get_get" =>
            /\ world' = world
            /\ is_some(res'.ret) = is_some(IndexOutcome(world, res'.id, res'.kind))
            /\ res'.ret.tag \in {"None", "Some"}
       /\ (res'.op = "world_get_mut" /\ res'.id \notin DOMAIN world) =>
            /\ res'.ret = None
            /\ world' = world
       /\ res'.op = "world_index" =>
            /\ res'.ret = IndexOutcome(world, res'.id, res'.kind)
            /\ world' = world
       /\ res'.op = "world_index_mut" =>
            /\ res'.ret = IndexOutcome(world, res'.id, res'.kind)
            /\ IF is_some(res'.ret)
               THEN Entity_get(world'[res'.id], res'.kind) = Some(res'.arg)
               ELSE world' = world
       /\ res'.ret.tag = "Panic" =>
            /\ res'.op \in {"world_index", "world_index_mut"}
            /\ UNCHANGED <<world, ent, returned>>
      ]_vars

\* both panics happen: world[id] named a missing identity, entity[kind] a
\* missing kind of a stored entity
IndexPanicWitness ==
    /\ res.ret.tag = "Panic"
    /\ res.op = "world_index"
    /\ res.id \in DOMAIN world
    /\ res.ret.msg = <<"Unable to find component ", "Speed">>

(***************************************************************************)
(* Claims about traversal and the query macros, checked under SpecQuery.   *)
(***************************************************************************)
NoRepeat(q) == \A i \in DOMAIN q : \A j \in DOMAIN q : i # j => q[i] # q[j]

HasEvery(e, kinds) == \A i \in DOMAIN kinds : Entity_has(e, kinds[i]) = Bool(TRUE)

\* C3: iter and iter_mut visit the entities in identity-ascending order, so
\* map!, map_mut! and tags! yield in that order.
IterVisitsAscending ==
    it.state # "idle" =>
        /\ \A i \in DOMAIN it.visited : \A j \in DOMAIN it.visited :
                i < j => it.visited[i] < it.visited[j]
        /\ \A k \in DOMAIN it.out : \A l \in DOMAIN it.out :
                k < l => it.out[k].id < it.out[l].id

\* C4: map!(k1, .., kn in W) yields one tuple for each visited entity that
\* has all of k1..kn and none for any other, the tuple being the entity's
\* (get(k1), .., get(kn)) unwrapped; it visits no entity twice, has visited
\* them all when it ends, changes nothing and never panics.
MapYieldsExactlyMatching ==
    (it.state # "idle" /\ it.macro = "map") =>
        /\ it.state \in {"running", "done"}
        /\ res.ret.tag # "Panic"
        /\ world = it.start
        /\ NoRepeat(it.visited)
        /\ it.state = "done" => SeqRange(it.visited) = DOMAIN world
        /\ \A k \in DOMAIN it.out :
            LET e == world[it.out[k].id]
            IN  /\ HasEvery(e, it.kinds)
                /\ DOMAIN it.out[k].item = DOMAIN it.kinds
                /\ \A i \in DOMAIN it.kinds :
                        Some(it.out[k].item[i]) = Entity_get(e, it.kinds[i])
        /\ \A id \in DOMAIN world :
            Cardinality({k \in DOMAIN it.out : it.out[k].id = id}) =
                IF id \in SeqRange(it.visited) /\ HasEvery(world[id], it.kinds) THEN 1 ELSE 0

\* map!(Position, Speed in W) ended having yielded for one entity and
\* skipped another
MapSkipsWitness ==
    /\ it.state = "done"
    /\ it.macro = "map"
    /\ it.kinds = <<"Position", "Speed">>
    /\ Len(it.out) >= 1
    /\ Len(it.out) < Len(it.visited)

\* C6: a write through a reference of map_mut! or map_mut_checked! (kinds
\* pairwise distinct) is what get returns afterwards, and nothing else
\* changes. With the loop body `*a += *b` on (k1, k2): every visited entity
\* that has both holds k1 = old k1 + old k2, its other kinds are as before,
\* and every other entity is as before. A = {Position: 0, Speed: -1} ends
\* with Position -1, B = {Position: 2, Speed: 3} with Position 5, and an
\* entity without Speed keeps its Position.
MutationVisible ==
    (it.state # "idle" /\ it.macro \in {"map_mut", "map_mut_checked"} /\ Distinct(it.kinds)) =>
        /\ DOMAIN world = DOMAIN it.start
        /\ \A id \in DOMAIN world :
            LET e0 == it.start[id]
                e  == world[id]
            IN  IF it.body = "add_assign" /\ id \in SeqRange(it.visited) /\ HasEvery(e0, it.kinds)
                THEN /\ Entity_get(e, it.kinds[1]) =
                            Some(Entity_get(e0, it.kinds[1]).val + Entity_get(e0, it.kinds[2]).val)
                     /\ \A T \in Kinds \ {it.kinds[1]} : Entity_get(e, T) = Entity_get(e0, T)
                     /\ Entity_id(e) = Entity_id(e0)
                     /\ \E k \in DOMAIN it.out : it.out[k].id = id
                ELSE e = e0
        /\ (it.state = "done" /\ it.body = "add_assign" /\ it.kinds = <<"Position", "Speed">>) =>
            \A id \in DOMAIN world :
                /\ it.start[id] = entity_macro(id, <<<<"Position", 0>>, <<"Speed", -1>>>>)
                     => Entity_get(world[id], "Position") = Some(-1)
                /\ it.start[id] = entity_macro(id, <<<<"Position", 2>>, <<"Speed", 3>>>>)
                     => Entity_get(world[id], "Position") = Some(5)
                /\ Entity_has(it.start[id], "Speed") = Bool(FALSE)
                     => Entity_get(world[id], "Position") = Entity_get(it.start[id], "Position")

\* the pass of the example ended: A holds Position -1 and B Position 5
ExamplePassWitness ==
    /\ it.state = "done"
    /\ it.macro \in {"map_mut", "map_mut_checked"}
    /\ it.body = "add_assign"
    /\ it.kinds = <<"Position", "Speed">>
    /\ \E a \in DOMAIN world : \E b \in DOMAIN world :
        /\ it.start[a] = entity_macro(a, <<<<"Position", 0>>, <<"Speed", -1>>>>)
        /\ it.start[b] = entity_macro(b, <<<<"Position", 2>>, <<"Speed", 3>>>>)
        /\ Entity_get(world[a], "Position") = Some(-1)
        /\ Entity_get(world[b], "Position") = Some(5)

CheckedTwice == it.state # "idle" /\ it.macro = "map_mut_checked" /\ ~Distinct(it.kinds)

\* the first kind of the list that an earlier place of the list names too
FirstRepeated(kinds) ==
    LET j == CHOOSE j \in DOMAIN kinds :
                /\ \E i \in 1..(j - 1) : kinds[i] = kinds[j]
                /\ \A l \in 1..(j - 1) : ~(\E i \in 1..(l - 1) : kinds[i] = kinds[l])
    IN  kinds[j]

\* C7 as stated: map_mut_checked! with a kind named twice fails over any
\* world, the empty one included: no such traversal ends without a panic.
CheckedTwiceAlwaysFails == ~(CheckedTwice /\ it.state = "done")

\* C7 amended: map_mut_checked! with a kind named twice panics, with a message
\* naming the repeated kind, when its closure is applied to an entity: on the
\* first entity the traversal visits, whether or not the entity has the kind,
\* before any reference is yielded and before any component is modified.
\* Building the closure or the iterator does not fail, and over an empty
\* world the traversal ends without a panic.
CheckedTwicePanicsOnFirstEntity ==
    CheckedTwice =>
        /\ it.visited = <<>>
        /\ it.out = <<>>
        /\ world = it.start
        /\ it.state = "done" => DOMAIN world = {}
        /\ it.state = "running" => res.ret.tag # "Panic"
        /\ it.state = "panicked" =>
            /\ DOMAIN world # {}
            /\ res.ret = Panic(<<FirstRepeated(it.kinds), " is used twice in map_mut_checked">>)

\* map_mut_checked!(Speed, Speed) panicked over a world none of whose
\* entities has Speed
CheckedTwiceWitness ==
    /\ it.state = "panicked"
    /\ it.macro = "map_mut_checked"
    /\ it.kinds = <<"Speed", "Speed">>
    /\ DOMAIN world # {}
    /\ \A id \in DOMAIN world : Entity_has(world[id], "Speed") = Bool(FALSE)

\* C11: tags!(k1, .., kn) is true of an entity iff the entity has every one
\* of k1..kn, the condition under which map!(k1, .., kn) returns Some;
\* tags!(k1, .., kn in W) yields exactly the whole entities of W that have
\* all of k1..kn, each once, so its count is the number of such entities; it
\* changes no entity and no component and never panics.
TagsYieldsExactlyHaving ==
    /\ \A id \in DOMAIN world : \A kinds \in KindLists :
        /\ tags_closure(kinds, world[id]) = Bool(HasEvery(world[id], kinds))
        /\ tags_closure(kinds, world[id]) = Bool(is_some(map_closure(kinds, world[id])))
    /\ (it.state # "idle" /\ it.macro = "tags") =>
        /\ it.state \in {"running", "done"}
        /\ res.ret.tag # "Panic"
        /\ world = it.start
        /\ \A k \in DOMAIN it.out :
            /\ it.out[k].item = world[it.out[k].id]
            /\ HasEvery(it.out[k].item, it.kinds)
        /\ \A id \in DOMAIN world :
            Cardinality({k \in DOMAIN it.out : it.out[k].id = id}) =
                IF id \in SeqRange(it.visited) /\ HasEvery(world[id], it.kinds) THEN 1 ELSE 0
        /\ it.state = "done" =>
            Len(it.out) = Cardinality({id \in DOMAIN world : HasEvery(world[id], it.kinds)})

\* tags!(Speed in W).count() is 1 over a world of two entities, as in the
\* crate's test: the entity with Speed was yielded whole, the other was not
TagsCountWitness ==
    /\ it.state = "done"
    /\ it.macro = "tags"
    /\ it.kinds = <<"Speed">>
    /\ Cardinality(DOMAIN world) = 2
    /\ Len(it.out) = 1
    /\ it.out[1].item = world[it.out[1].id]
    /\ \E id \in DOMAIN world : Entity_has(world[id], "Speed") = Bool(FALSE)

(***************************************************************************)
(* Claims about an entity's way into and out of a world, checked under     *)
(* SpecAttach.                                                             *)
(***************************************************************************)
\* C12: Entity::new() returns an entity without components, and an
\* entity the caller holds, attached to no world, has no identity: insert is
\* what first assigns one.
UnattachedHasNoIdentity ==
    /\ res.op = "new" => \A T \in Kinds : Entity_has(ent.val, T) = Bool(FALSE)
    /\ is_some(ent) => Entity_id(ent.val) \notin IdSpace

\* C13: Entity::remove(k) returns Some(v), v being the value stored for k,
\* when k is present and None when it is absent; afterwards has(k) is false.
\* add and remove of kind k act on the receiving entity's slot for k only:
\* its other kinds, its identity and every other entity stay as they were.
RemoveActsOnOwnSlot ==
    [][/\ res'.op = "remove" =>
            LET T == res'.kind
            IN  /\ res'.ret = IF AS_STR(T) \in DOMAIN ent.val.components
                              THEN Some(ent.val.components[AS_STR(T)].val)
                              ELSE None
                /\ Entity_has(ent'.val, T) = Bool(FALSE)
                /\ Entity_get(ent'.val, T) = None
                /\ OtherSlotsKept(ent.val, ent'.val, T)
                /\ Entity_id(ent'.val) = Entity_id(ent.val)
                /\ world' = world
       /\ res'.op = "add" =>
            LET T == res'.kind
            IN  /\ Entity_get(ent'.val, T) = Some(res'.arg)
                /\ OtherSlotsKept(ent.val, ent'.val, T)
                /\ Entity_id(ent'.val) = Entity_id(ent.val)
                /\ world' = world
      ]_vars

\* remove returned the value of a kind the entity held and left the entity
\* its other kind, while the world stored another entity with components
RemoveReturnedValueWitness ==
    /\ res.op = "remove"
    /\ is_some(res.ret)
    /\ Entity_has(ent.val, res.kind) = Bool(FALSE)
    /\ \E T \in Kinds \ {res.kind} : Entity_has(ent.val, T) = Bool(TRUE)
    /\ \E id \in DOMAIN world : id # Entity_id(ent.val) /\ Entity_has(world[id], res.kind) = Bool(TRUE)

====
